---- MODULE Spec2Model ----
(***************************************************************************)
(* Model of the Claude notebook harness (enhanced-claude-notebook.py) and   *)
(* its clients.  Text is modelled as a sequence of tokens (conversation    *)
(* part) or of characters (extraction and export parts); the empty text is *)
(* the empty sequence.                                                     *)
(***************************************************************************)
EXTENDS Integers, Sequences, FiniteSets, TLC

VARIABLES
    conversation_state, \* the global dict of the notebook (line 23)
    now,                \* the clock read by datetime.now()
    disk,               \* the conversation state file on disk
    last,               \* what the last operation did, as its caller sees it
    foreign,            \* the live state descends from a file the program did not write
    response_text,      \* the response text given to extract_markdown
    artifacts,          \* what extract_markdown returned
    extracted,          \* extract_markdown has returned
    folder_exists,      \* the export folder exists
    folder_files,       \* the files of the export folder: path -> content
    folder_initial,     \* the paths the export folder held at the start
    export_pool,        \* the artifacts this run exports
    export_log,         \* the save_artifact calls made so far, in order
    conversations,      \* the documents of the conversations collection: id -> data
    subcollections,     \* the artifact documents: <<conversation id, artifact id>> -> data
    issued,             \* the identifiers uuid4 has returned
    returned,           \* what save_conversation returned, with the inputs of the call
    store_last,         \* what the last store operation did, as its caller sees it
    pc,                 \* where each concurrent caller of ask_claude stands
    call                \* the local variables of each caller's ask_claude call

convVars == <<conversation_state, now, disk, last, foreign>>

extractVars == <<response_text, artifacts, extracted>>

exportVars == <<folder_exists, folder_files, folder_initial, export_pool, export_log>>

storeVars == <<conversations, subcollections, issued, returned, store_last>>

vars == <<conversation_state, now, disk, last, foreign, response_text, artifacts, extracted,
          folder_exists, folder_files, folder_initial, export_pool, export_log,
          conversations, subcollections, issued, returned, store_last, pc, call>>

callerVars == <<pc, call>>

(***************************************************************************)
(* Bounds of the model.                                                    *)
(***************************************************************************)
MaxExchanges == 2

MaxPieces == 5

MaxHeadingLen == 2

MaxExports == 3

MaxIds == 3

MaxLimit == 2

MaxCalls == 1

(***************************************************************************)
(* Helpers on sequences.                                                   *)
(***************************************************************************)
Max(a, b) == IF a >= b THEN a ELSE b

Min(a, b) == IF a <= b THEN a ELSE b

(***************************************************************************)
(* The model capability: client.messages.create either raises or returns a *)
(* message whose content is a sequence of typed blocks.                    *)
(***************************************************************************)
TextBlock(t) == [type |-> "text", text |-> t]

OtherBlock == [type |-> "tool_use", text |-> <<"ignored">>]

NoMessage == [id |-> "none", content |-> <<>>]

ApiResults ==
    { [ok |-> TRUE,  message |-> [id |-> "msg_a", content |-> <<TextBlock(<<"answer">>)>>]],
      [ok |-> TRUE,  message |-> [id |-> "msg_b", content |-> <<OtherBlock>>]],
      [ok |-> FALSE, message |-> NoMessage] }

\* send_message with the exception swallowed instead of re-raised
send_messageSwallowed(prompt, api) ==
    [calls   |-> <<prompt>>,
     raised  |-> FALSE,
     message |-> IF api.ok THEN api.message ELSE NoMessage]

\* AnthropicClient.send_message: one create call inside try; the except
\* branch prints and re-raises.
send_message(prompt, api) ==
    [calls   |-> <<prompt>>,
     raised  |-> ~api.ok,
     message |-> IF api.ok THEN api.message ELSE NoMessage]

(***************************************************************************)
(* ask_claude                                                              *)
(***************************************************************************)
WindowSize == 6

RoleLabel(msg) == IF msg.role = "user" THEN "Human" ELSE "Assistant"

\* f"{'Human' if msg['role'] == 'user' else 'Assistant'}: {msg['content']}\n\n"
RenderMessage(msg) == <<RoleLabel(msg), ": ">> \o msg.content \o <<"\n\n">>

\* for i in range(lo, hi): full_prompt += render(messages[i])   (0-based i)
RECURSIVE RenderRange(_, _, _)
RenderRange(msgs, lo, hi) ==
    IF lo >= hi THEN <<>>
    ELSE RenderMessage(msgs[lo + 1]) \o RenderRange(msgs, lo + 1, hi)

\* the window start taken one message too early
WindowStartOffByOne(n) == Max(0, n - WindowSize - 1)

\* range(max(0, len(messages)-6), len(messages))
WindowStart(n) == Max(0, n - WindowSize)

SummaryBlock(cs, include_summary) ==
    IF include_summary /\ cs.summary # <<>>
    THEN <<"# Previous Conversation Summary\n">> \o cs.summary \o <<"\n\n">>
    ELSE <<>>

HistoryBlock(cs, include_history) ==
    IF include_history /\ cs.messages # <<>>
    THEN <<"# Previous Messages\n">>
         \o RenderRange(cs.messages, WindowStart(Len(cs.messages)), Len(cs.messages))
         \o <<"# New Question\n">>
    ELSE <<>>

\* the prompt with the history block put before the summary block
ComposeHistoryFirst(cs, prompt, include_history, include_summary) ==
    HistoryBlock(cs, include_history) \o SummaryBlock(cs, include_summary) \o prompt

\* lines 44-63: the prompt sent to the model
Compose(cs, prompt, include_history, include_summary) ==
    SummaryBlock(cs, include_summary) \o HistoryBlock(cs, include_history) \o prompt

\* lines 71-74: concatenate the text of the text blocks
RECURSIVE TextContent(_)
TextContent(blocks) ==
    IF blocks = <<>> THEN <<>>
    ELSE (IF Head(blocks).type = "text" THEN Head(blocks).text ELSE <<>>)
         \o TextContent(Tail(blocks))

\* the exchange recorded without the assistant message
RecordUserOnly(cs, prompt, text_content, t) ==
    [cs EXCEPT !.messages = Append(@, [role |-> "user", content |-> prompt]),
               !.last_updated = t]

\* lines 77-79: record the exchange
Record(cs, prompt, text_content, t) ==
    [cs EXCEPT !.messages = Append(Append(@, [role |-> "user", content |-> prompt]),
                                   [role |-> "assistant", content |-> text_content]),
               !.last_updated = t]

\* The whole of ask_claude on state cs at time t: the state it leaves, whether
\* it raised, the create calls it made and the content it returned.
ask_claude(cs, prompt, include_history, include_summary, api, t) ==
    LET full_prompt == Compose(cs, prompt, include_history, include_summary)
        sent == send_message(full_prompt, api)
        text_content == TextContent(sent.message.content)
    IN  IF sent.raised
        THEN [state |-> cs, raised |-> TRUE, calls |-> sent.calls, content |-> <<>>]
        ELSE [state |-> Record(cs, prompt, text_content, t), raised |-> FALSE,
              calls |-> sent.calls, content |-> text_content]

(***************************************************************************)
(* File sharing                                                            *)
(***************************************************************************)
\* a triple-backtick fence inside a prompt
Fence == "[fence]"

ReadableFiles == {"a.py"}

\* read_file_content: the content, or the error text when open() fails
read_file_content(file_path) ==
    IF file_path \in ReadableFiles THEN <<"contents of ", file_path>>
    ELSE <<"Error reading file: ", file_path>>

\* include_file_in_prompt with max_length=None
include_file_in_prompt(file_path) ==
    <<"\n<file path=", file_path, ">\n", Fence, "\n">>
    \o read_file_content(file_path) \o <<"\n", Fence, "\n</file>\n">>

\* the path appended without the membership test
TrackAlways(shared, file_path) == Append(shared, file_path)

\* lines 214-215: if file_path not in shared_files: shared_files.append(file_path)
Track(shared, file_path) ==
    IF \E i \in 1..Len(shared) : shared[i] = file_path THEN shared
    ELSE Append(shared, file_path)

\* lines 211-215: the loop over file_paths, carrying the prompt and shared_files
RECURSIVE ShareLoop(_, _, _)
ShareLoop(file_paths, prompt, shared) ==
    IF file_paths = <<>> THEN [prompt |-> prompt, shared_files |-> shared]
    ELSE LET fp == Head(file_paths)
         IN  ShareLoop(Tail(file_paths), prompt \o include_file_in_prompt(fp),
                       Track(shared, fp))

(***************************************************************************)
(* Summarisation                                                           *)
(***************************************************************************)
SummaryTemplateHead ==
    "\nPlease provide a concise summary of our conversation so far. [...] Here is the conversation to summarize:\n\n"

\* lines 229-244: the whole history rendered into the template
SummaryPrompt(cs) ==
    <<SummaryTemplateHead>> \o RenderRange(cs.messages, 0, Len(cs.messages)) \o <<"\n">>

\* the precondition testing for an empty history only
NothingToSummarizeWhenEmpty(cs) == Len(cs.messages) < 1

\* line 224: if len(conversation_state["messages"]) < 2
NothingToSummarize(cs) == Len(cs.messages) < 2

\* the summarisation sent with ask_claude's defaults (history and summary on)
SummaryCallWithContext(cs, api, t) == ask_claude(cs, SummaryPrompt(cs), TRUE, TRUE, api, t)

\* the summarisation sent to the model without being recorded as an exchange
SummaryCallUnrecorded(cs, api, t) ==
    [ask_claude(cs, SummaryPrompt(cs), FALSE, FALSE, api, t) EXCEPT !.state = cs]

\* line 247: ask_claude(summary_prompt, include_history=False, include_summary=False)
SummaryCall(cs, api, t) == ask_claude(cs, SummaryPrompt(cs), FALSE, FALSE, api, t)

\* the response text appended to the summary already held
StoreSummaryMerged(cs, content) == [cs EXCEPT !.summary = @ \o content]

\* line 250: conversation_state["summary"] = response["content"]
StoreSummary(cs, content) == [cs EXCEPT !.summary = content]

(***************************************************************************)
(* Persistence of the conversation state: json.dump / json.load            *)
(***************************************************************************)
JString(s) == [kind |-> "string", value |-> s, items |-> <<>>]

JArray(xs) == [kind |-> "array", value |-> <<>>, items |-> xs]

JMember(k, v) == [key |-> k, member |-> v]

JObject(members) == [kind |-> "object", value |-> <<>>, items |-> members]

JMessage(m) == JObject(<<JMember("role", JString(<<m.role>>)),
                         JMember("content", JString(m.content))>>)

\* the dump with shared_files written as a set, in no kept order
JsonDumpSharedUnordered(cs) ==
    JObject(<<JMember("messages", JArray([i \in 1..Len(cs.messages) |-> JMessage(cs.messages[i])])),
              JMember("summary", JString(cs.summary)),
              JMember("shared_files",
                      JArray([i \in 1..Len(cs.shared_files) |->
                                JString(<<cs.shared_files[Len(cs.shared_files) + 1 - i]>>)])),
              JMember("last_updated", JString(<<cs.last_updated>>))>>)

\* json.dump(conversation_state): the dict's keys in insertion order
JsonDump(cs) ==
    JObject(<<JMember("messages", JArray([i \in 1..Len(cs.messages) |-> JMessage(cs.messages[i])])),
              JMember("summary", JString(cs.summary)),
              JMember("shared_files",
                      JArray([i \in 1..Len(cs.shared_files) |-> JString(<<cs.shared_files[i]>>)])),
              JMember("last_updated", JString(<<cs.last_updated>>))>>)

\* the value of key k of a JSON object
JGet(obj, k) == (CHOOSE i \in 1..Len(obj.items) : obj.items[i].key = k)

JField(obj, k) == obj.items[JGet(obj, k)].member

\* json.load of a state document
JsonLoad(doc) ==
    [messages |-> [i \in 1..Len(JField(doc, "messages").items) |->
                     LET m == JField(doc, "messages").items[i]
                     IN  [role |-> JField(m, "role").value[1],
                          content |-> JField(m, "content").value]],
     summary |-> JField(doc, "summary").value,
     shared_files |-> [i \in 1..Len(JField(doc, "shared_files").items) |->
                         JField(doc, "shared_files").items[i].value[1]],
     last_updated |-> JField(doc, "last_updated").value[1]]

Garbage == [kind |-> "garbage", value |-> <<>>, items |-> <<>>]

EmptyState == [messages |-> <<>>, summary |-> <<>>, shared_files |-> <<>>, last_updated |-> 0]

\* The state file: written tells that save_conversation_state wrote it in this
\* run, and saved is then the live state it was given.
NoFile == [exists |-> FALSE, doc |-> Garbage, written |-> FALSE, saved |-> EmptyState]

(***************************************************************************)
(* Initial state                                                           *)
(***************************************************************************)
UserMsg(c) == [role |-> "user", content |-> c]

AssistantMsg(c) == [role |-> "assistant", content |-> c]

\* states a state file left by an earlier session (or edited by hand) may hold
OddState == [messages |-> <<UserMsg(<<"m1">>)>>, summary |-> <<>>,
             shared_files |-> <<>>, last_updated |-> 0]

LongState ==
    [messages |-> <<UserMsg(<<"m1">>), AssistantMsg(<<"m2">>), UserMsg(<<"m3">>),
                    AssistantMsg(<<"m4">>), UserMsg(<<"m5">>), AssistantMsg(<<"m6">>),
                    UserMsg(<<"m7">>)>>,
     summary |-> <<"old summary">>, shared_files |-> <<"b.py">>, last_updated |-> 0]

SixState == [LongState EXCEPT !.messages = SubSeq(@, 1, 6)]

InitialDisks ==
    { NoFile,
      [NoFile EXCEPT !.exists = TRUE, !.doc = JsonDump(SixState)],
      [NoFile EXCEPT !.exists = TRUE],
      [NoFile EXCEPT !.exists = TRUE, !.doc = JsonDump(OddState)],
      [NoFile EXCEPT !.exists = TRUE, !.doc = JsonDump(LongState)] }

Idle == [op |-> "init", outcome |-> "ok", prompt |-> <<>>, include_history |-> FALSE,
         include_summary |-> FALSE, api_ok |-> TRUE, calls |-> <<>>, content |-> <<>>]

Init ==
    /\ conversation_state = EmptyState
    /\ now = 0
    /\ disk \in InitialDisks
    /\ last = Idle
    /\ foreign = FALSE
    /\ response_text = <<>>
    /\ artifacts = <<>>
    /\ extracted = FALSE
    /\ folder_exists = FALSE
    /\ folder_files = <<>>
    /\ folder_initial = {}
    /\ export_pool = {}
    /\ export_log = <<>>
    /\ conversations = <<>>
    /\ subcollections = <<>>
    /\ issued = {}
    /\ returned = {}
    /\ store_last = [op |-> "init", outcome |-> "ok"]
    /\ pc = <<>>
    /\ call = <<>>

(***************************************************************************)
(* Operations                                                              *)
(***************************************************************************)
Prompts == { <<"hello">> }

PathLists == { <<"a.py">>, <<"b.py", "a.py", "b.py">> }

Outcome(r) == IF r.raised THEN "raised" ELSE "ok"

\* a successful exchange reads the clock once
CanRecord(api) == api.ok => now < MaxExchanges

AskClaude ==
    \E prompt \in Prompts, include_history \in BOOLEAN, include_summary \in BOOLEAN,
       api \in ApiResults :
        /\ CanRecord(api)
        /\ LET r == ask_claude(conversation_state, prompt, include_history,
                               include_summary, api, now + 1)
           IN  /\ conversation_state' = r.state
               /\ now' = IF r.raised THEN now ELSE now + 1
               /\ last' = [op |-> "ask_claude", outcome |-> Outcome(r), prompt |-> prompt,
                           include_history |-> include_history,
                           include_summary |-> include_summary, api_ok |-> api.ok,
                           calls |-> r.calls, content |-> r.content]
        /\ UNCHANGED <<disk, foreign, extractVars, exportVars, storeVars, callerVars>>

\* the paths tracked only once the exchange has succeeded
share_files_with_claudeTrackAfter(cs, file_paths, api, t) ==
    LET loop == ShareLoop(file_paths, <<"Please review these files:", "\n\n">>,
                          cs.shared_files)
        prompt == loop.prompt \o <<"\n">>
        r == ask_claude(cs, prompt, TRUE, TRUE, api, t)
    IN  [state |-> IF r.raised THEN r.state
                   ELSE [r.state EXCEPT !.shared_files = loop.shared_files],
         raised |-> r.raised, calls |-> r.calls, content |-> r.content,
         prompt |-> prompt]

\* lines 207-219: the loop tracks the paths in the live state, then
\* ask_claude(prompt) runs on that state with its default flags
share_files_with_claude(cs, file_paths, api, t) ==
    LET loop == ShareLoop(file_paths, <<"Please review these files:", "\n\n">>,
                          cs.shared_files)
        prompt == loop.prompt \o <<"\n">>
        shared == [cs EXCEPT !.shared_files = loop.shared_files]
        r == ask_claude(shared, prompt, TRUE, TRUE, api, t)
    IN  [state |-> r.state, raised |-> r.raised, calls |-> r.calls,
         content |-> r.content, prompt |-> prompt]

ShareFilesWithClaude ==
    \E file_paths \in PathLists, api \in ApiResults :
        /\ CanRecord(api)
        /\ LET r == share_files_with_claude(conversation_state, file_paths, api, now + 1)
               prompt == r.prompt
           IN  /\ conversation_state' = r.state
               /\ now' = IF r.raised THEN now ELSE now + 1
               /\ last' = [op |-> "share_files_with_claude", outcome |-> Outcome(r),
                           prompt |-> prompt, include_history |-> TRUE,
                           include_summary |-> TRUE, api_ok |-> api.ok,
                           calls |-> r.calls, content |-> r.content]
        /\ UNCHANGED <<disk, foreign, extractVars, exportVars, storeVars, callerVars>>

GenerateConversationSummary ==
    \E api \in ApiResults :
        /\ CanRecord(api)
        /\ IF NothingToSummarize(conversation_state)
           THEN /\ last' = [Idle EXCEPT !.op = "generate_conversation_summary",
                                        !.outcome = "noop"]
                /\ UNCHANGED <<conversation_state, now>>
           ELSE LET summary_prompt == SummaryPrompt(conversation_state)
                    r == SummaryCall(conversation_state, api, now + 1)
                IN  /\ conversation_state' =
                          IF r.raised THEN r.state
                          ELSE StoreSummary(r.state, r.content)
                    /\ now' = IF r.raised THEN now ELSE now + 1
                    /\ last' = [op |-> "generate_conversation_summary",
                                outcome |-> Outcome(r), prompt |-> summary_prompt,
                                include_history |-> FALSE, include_summary |-> FALSE,
                                api_ok |-> api.ok, calls |-> r.calls,
                                content |-> r.content]
        /\ UNCHANGED <<disk, foreign, extractVars, exportVars, storeVars, callerVars>>

SaveConversationState ==
    /\ disk' = [exists |-> TRUE, doc |-> JsonDump(conversation_state), written |-> TRUE,
                saved |-> conversation_state]
    /\ last' = [Idle EXCEPT !.op = "save_conversation_state"]
    /\ UNCHANGED <<conversation_state, now, foreign, extractVars, exportVars, storeVars, callerVars>>

\* the load with every exception caught, not FileNotFoundError alone
load_conversation_stateCatchAll(cs, file) ==
    IF ~file.exists \/ file.doc.kind # "object"
    THEN [state |-> cs, outcome |-> "absent"]
    ELSE [state |-> JsonLoad(file.doc), outcome |-> "ok"]

\* lines 261-269: the state the load leaves and how it ends
load_conversation_state(cs, file) ==
    IF ~file.exists
    THEN \* FileNotFoundError: caught, a message is printed
         [state |-> cs, outcome |-> "absent"]
    ELSE IF file.doc.kind # "object"
    THEN \* json.load raises before the assignment
         [state |-> cs, outcome |-> "raised"]
    ELSE [state |-> JsonLoad(file.doc), outcome |-> "ok"]

LoadConversationState ==
    /\ LET r == load_conversation_state(conversation_state, disk)
       IN  /\ conversation_state' = r.state
           /\ foreign' = (foreign \/ (r.outcome = "ok" /\ ~disk.written))
           /\ last' = [Idle EXCEPT !.op = "load_conversation_state", !.outcome = r.outcome]
    /\ UNCHANGED <<disk, now, extractVars, exportVars, storeVars, callerVars>>

Next ==
    \/ AskClaude
    \/ ShareFilesWithClaude
    \/ GenerateConversationSummary
    \/ SaveConversationState
    \/ LoadConversationState

Spec == Init /\ [][Next]_vars

(***************************************************************************)
(* extract_markdown.  Here a text is a sequence of characters.             *)
(***************************************************************************)
BT == "<backtick>"

FenceText == <<BT, BT, BT>>

MarkdownTag == <<"m", "a", "r", "k", "d", "o", "w", "n">>

HeadingMark == <<"#", " ">>

NewlineHeadingMark == <<"\n", "#", " ">>

\* the characters \s and str.strip() take for whitespace
Whitespace == {" ", "\n", "\t", "\r"}

\* text has pat at position pos (1-based)
StartsWith(text, pos, pat) ==
    /\ pos >= 1
    /\ pos + Len(pat) - 1 <= Len(text)
    /\ SubSeq(text, pos, pos + Len(pat) - 1) = pat

\* str.strip()
RECURSIVE LStrip(_)
LStrip(text) ==
    IF text # <<>> /\ Head(text) \in Whitespace THEN LStrip(Tail(text)) ELSE text

RECURSIVE RStrip(_)
RStrip(text) ==
    IF text # <<>> /\ text[Len(text)] \in Whitespace
    THEN RStrip(SubSeq(text, 1, Len(text) - 1)) ELSE text

Strip(text) == RStrip(LStrip(text))

\* Python's "sub in text"
InText(sub, text) ==
    \E i \in 1..(Len(text) - Len(sub) + 1) : SubSeq(text, i, i + Len(sub) - 1) = sub

\* (?:markdown)? : the tag is taken when it is there
SkipTag(text, pos) == IF StartsWith(text, pos, MarkdownTag) THEN pos + Len(MarkdownTag) ELSE pos

\* \s* : greedy run of whitespace
RECURSIVE SkipSpace(_, _)
SkipSpace(text, pos) ==
    IF pos <= Len(text) /\ text[pos] \in Whitespace THEN SkipSpace(text, pos + 1) ELSE pos

\* ([\s\S]*?)``` : the first fence at or after pos, 0 when there is none
RECURSIVE NextFence(_, _)
NextFence(text, pos) ==
    IF pos > Len(text) THEN 0
    ELSE IF StartsWith(text, pos, FenceText) THEN pos
    ELSE NextFence(text, pos + 1)

\* re.findall(r'```(?:markdown)?\s*([\s\S]*?)```', text) scanning from pos:
\* the captured group of every match, with the place where it stands
RECURSIVE FindCodeBlocks(_, _)
FindCodeBlocks(text, pos) ==
    IF pos > Len(text) THEN <<>>
    ELSE IF ~StartsWith(text, pos, FenceText) THEN FindCodeBlocks(text, pos + 1)
    ELSE LET from == SkipSpace(text, SkipTag(text, pos + 3))
             close == NextFence(text, from)
         IN  IF close = 0 THEN FindCodeBlocks(text, pos + 1)
             ELSE <<[open |-> pos, close |-> close, block |-> SubSeq(text, from, close - 1)]>>
                  \o FindCodeBlocks(text, close + 3)

\* $ without re.MULTILINE: the end of the text, or just before a final newline
AtDollar(text, pos) ==
    \/ pos = Len(text) + 1
    \/ pos = Len(text) /\ text[pos] = "\n"

\* (.*?)(?:\n|$) : the heading runs to the end of its line
RECURSIVE LineEnd(_, _)
LineEnd(text, pos) ==
    IF pos > Len(text) \/ text[pos] = "\n" THEN pos ELSE LineEnd(text, pos + 1)

\* ([\s\S]*?)(?=(?:\n# |$)) : the body runs to the next heading or the end
RECURSIVE BodyEnd(_, _)
BodyEnd(text, pos) ==
    IF StartsWith(text, pos, NewlineHeadingMark) \/ AtDollar(text, pos) THEN pos
    ELSE BodyEnd(text, pos + 1)

\* (?:^|\n)# at pos: where the heading text starts, 0 when there is no match
HeadingStart(text, pos) ==
    IF pos = 1 /\ StartsWith(text, 1, HeadingMark) THEN 3
    ELSE IF StartsWith(text, pos, NewlineHeadingMark) THEN pos + 3
    ELSE 0

\* re.findall(r'(?:^|\n)# (.*?)(?:\n|$)([\s\S]*?)(?=(?:\n# |$))', text) from pos
RECURSIVE FindHeadingBlocks(_, _)
FindHeadingBlocks(text, pos) ==
    IF pos > Len(text) THEN <<>>
    ELSE LET hs == HeadingStart(text, pos)
         IN  IF hs = 0 THEN FindHeadingBlocks(text, pos + 1)
             ELSE LET he == LineEnd(text, hs)
                      bs == IF he <= Len(text) THEN he + 1 ELSE he
                      be == BodyEnd(text, bs)
                  IN  <<[mark |-> hs - 2, heading |-> SubSeq(text, hs, he - 1),
                         content |-> SubSeq(text, bs, be - 1)]>>
                      \o FindHeadingBlocks(text, be)

\* the test made on the body as matched, not stripped
InSomeCodeBlockUnstripped(content, code_blocks) ==
    \E j \in 1..Len(code_blocks) : InText(content, code_blocks[j].block)

\* any(content.strip() in block for block in code_blocks)
InSomeCodeBlock(content, code_blocks) ==
    \E j \in 1..Len(code_blocks) : InText(Strip(content), code_blocks[j].block)

CodeBlockArtifact(block, i) ==
    [type |-> "markdown_code_block", content |-> Strip(block), index |-> i]

SectionArtifact(heading, content, i) ==
    [type |-> "markdown_section", heading |-> Strip(heading),
     content |-> HeadingMark \o Strip(heading) \o <<"\n", "\n">> \o Strip(content),
     index |-> i]

\* lines 108-116: one section artifact per heading match that is not skipped
RECURSIVE SectionArtifacts(_, _, _)
SectionArtifacts(heading_blocks, code_blocks, i) ==
    IF i >= Len(heading_blocks) THEN <<>>
    ELSE LET hb == heading_blocks[i + 1]
         IN  (IF ~InSomeCodeBlock(hb.content, code_blocks)
              THEN <<SectionArtifact(hb.heading, hb.content, i)>> ELSE <<>>)
             \o SectionArtifacts(heading_blocks, code_blocks, i + 1)

extract_markdown(text) ==
    LET code_blocks == FindCodeBlocks(text, 1)
        heading_blocks == FindHeadingBlocks(text, 1)
    IN  [i \in 1..Len(code_blocks) |-> CodeBlockArtifact(code_blocks[i].block, i - 1)]
        \o SectionArtifacts(heading_blocks, code_blocks, 0)

\* Response texts: every concatenation of at most MaxPieces pieces, and some
\* whole documents.
Pieces == { FenceText, MarkdownTag, <<"\n">>, HeadingMark, <<"a">>, <<"b">>, <<" ">> }

RECURSIVE PieceTexts(_)
PieceTexts(n) ==
    IF n = 0 THEN { <<>> }
    ELSE LET shorter == PieceTexts(n - 1)
         IN  shorter \cup { t \o p : t \in shorter, p \in Pieces }

Words == { <<"a">>, <<"b">>, <<"a", "b">>, <<"b", "a">> }

\* "```markdown\nA\n```\n# B\nC"
FencedThenHeaded(A, B, C) ==
    FenceText \o MarkdownTag \o <<"\n">> \o A \o <<"\n">> \o FenceText
    \o NewlineHeadingMark \o B \o <<"\n">> \o C

\* "```markdown\n# B\nC\n```": a markdown document that is fenced and headed
FencedDocument(B, C) ==
    FenceText \o MarkdownTag \o <<"\n">> \o HeadingMark \o B \o <<"\n">> \o C
    \o <<"\n">> \o FenceText

\* "```\nA\n```\n# B\nC\n# B\nA\n"
FencedThenTwoSections(A, B, C) ==
    FenceText \o <<"\n">> \o A \o <<"\n">> \o FenceText
    \o NewlineHeadingMark \o B \o <<"\n">> \o C
    \o NewlineHeadingMark \o B \o <<"\n">> \o A \o <<"\n">>

Documents ==
    { FencedThenHeaded(A, <<"t">>, C) : A \in Words, C \in Words }
    \cup { FencedDocument(<<"t">>, C) : C \in Words }
    \cup { FencedDocument(<<"t">>, C \o NewlineHeadingMark \o <<"u">> \o <<"\n">> \o C) : C \in Words }
    \cup { FencedThenTwoSections(A, <<"t">>, C) : A \in Words, C \in Words }
    \cup { FencedThenHeaded(A, <<"t">>, <<"\n">> \o C) : A \in Words, C \in Words }

ResponseTexts == PieceTexts(MaxPieces) \cup Documents

ConvIdle ==
    /\ conversation_state = EmptyState
    /\ now = 0
    /\ disk = NoFile
    /\ last = Idle
    /\ foreign = FALSE

ExtractIdle ==
    /\ response_text = <<>>
    /\ artifacts = <<>>
    /\ extracted = FALSE

ExportIdle ==
    /\ folder_exists = FALSE
    /\ folder_files = <<>>
    /\ folder_initial = {}
    /\ export_pool = {}
    /\ export_log = <<>>

StoreIdle ==
    /\ conversations = <<>>
    /\ subcollections = <<>>
    /\ issued = {}
    /\ returned = {}
    /\ store_last = [op |-> "init", outcome |-> "ok"]

\* no concurrent caller
CallersIdle ==
    /\ pc = <<>>
    /\ call = <<>>

InitExtract ==
    /\ ConvIdle
    /\ ExportIdle
    /\ StoreIdle
    /\ CallersIdle
    /\ response_text \in ResponseTexts
    /\ artifacts = <<>>
    /\ extracted = FALSE

ExtractMarkdown ==
    /\ ~extracted
    /\ artifacts' = extract_markdown(response_text)
    /\ extracted' = TRUE
    /\ UNCHANGED <<response_text, convVars, exportVars, storeVars, callerVars>>

NextExtract == ExtractMarkdown

SpecExtract == InitExtract /\ [][NextExtract]_vars

(***************************************************************************)
(* save_artifact.  A path is the file name inside the export folder, a     *)
(* sequence of characters.                                                 *)
(***************************************************************************)
UpperLetters == {"A", "B"}

LowerLetters == {"a", "b", "c", "f", "i", "r", "t"}

DigitChars == <<"0", "1", "2", "3", "4", "5", "6", "7", "8", "9">>

\* c.isalnum()
IsAlnum(c) == c \in UpperLetters \cup LowerLetters \cup {DigitChars[i] : i \in 1..10}

\* c if c.isalnum() or c in " -_" else "_"
CleanChar(c) == IF IsAlnum(c) \/ c \in {" ", "-", "_"} THEN c ELSE "_"

\* "".join(... for c in artifact['heading'])
CleanHeading(heading) == [i \in 1..Len(heading) |-> CleanChar(heading[i])]

\* .replace(" ", "_")
Underscored(name) == [i \in 1..Len(name) |-> IF name[i] = " " THEN "_" ELSE name[i]]

LowerChar(c) == IF c = "A" THEN "a" ELSE IF c = "B" THEN "b" ELSE c

\* .lower() left out
LoweredNot(name) == name

\* .lower()
Lowered(name) == [i \in 1..Len(name) |-> LowerChar(name[i])]

\* str(n) for n >= 0
RECURSIVE IntToStr(_)
IntToStr(n) ==
    IF n < 10 THEN <<DigitChars[n + 1]>>
    ELSE IntToStr(n \div 10) \o <<DigitChars[(n % 10) + 1]>>

ArtifactPrefix == <<"a", "r", "t", "i", "f", "a", "c", "t", "_">>

MdExt == <<".", "m", "d">>

\* lines 127-132
Filename(artifact) ==
    IF artifact.type = "markdown_section" /\ "heading" \in DOMAIN artifact
    THEN Lowered(Underscored(CleanHeading(artifact.heading)))
    ELSE ArtifactPrefix \o IntToStr(artifact.index)

\* the first candidate taken whether or not it exists
ResolveNoLoop(existing, filename, final, counter) == final

\* lines 139-141: while os.path.exists(final_filename)
RECURSIVE Resolve(_, _, _, _)
Resolve(existing, filename, final, counter) ==
    IF final \in existing
    THEN Resolve(existing, filename, filename \o <<"_">> \o IntToStr(counter) \o MdExt,
                 counter + 1)
    ELSE final

\* the whole of save_artifact on a folder: the folder it leaves, the base name
\* it derived and the path it returns
save_artifact(artifact, exists, files) ==
    LET filename == Filename(artifact)
        final_filename == Resolve(DOMAIN files, filename, filename \o MdExt, 1)
    IN  [folder_exists |-> TRUE,
         files |-> [p \in DOMAIN files \cup {final_filename} |->
                      IF p = final_filename THEN artifact.content ELSE files[p]],
         filename |-> filename,
         final_filename |-> final_filename]

RECURSIVE SeqsUpTo(_, _)
SeqsUpTo(chars, n) ==
    IF n = 0 THEN { <<>> }
    ELSE LET shorter == SeqsUpTo(chars, n - 1)
         IN  shorter \cup { Append(t, c) : t \in shorter, c \in chars }

HeadingChars == {"A", "b", "1", " ", "-", "_", "!", "/"}

Headings == SeqsUpTo(HeadingChars, MaxHeadingLen)

Section(heading, i) ==
    [type |-> "markdown_section", heading |-> heading,
     content |-> HeadingMark \o heading \o <<"\n", "\n", "x">>, index |-> i]

CodeBlock(i) == [type |-> "markdown_code_block", content |-> <<"y">>, index |-> i]

\* an export run takes its artifacts from one pool: one artifact exported again
\* and again, or a mix of artifacts whose names can meet
Pools ==
    { {Section(h, 0)} : h \in Headings }
    \cup { {CodeBlock(0)}, {CodeBlock(12)} }
    \cup { { Section(<<"A">>, 0), Section(<<"a">>, 1), Section(<<"a", "_", "1">>, 2), CodeBlock(0) },
           { Section(<<"a", "!">>, 0), Section(<<"a", " ">>, 1), Section(<<"a", "_">>, 2) },
           { [type |-> "markdown_section", content |-> <<"x">>, index |-> 0],
             [type |-> "markdown_code_block", heading |-> <<"A">>, content |-> <<"y">>, index |-> 0],
             Section(<<"a", "r", "t", "i", "f", "a", "c", "t", " ", "0">>, 0) } }

OldFiles(paths) == [p \in paths |-> <<"o", "l", "d">>]

InitialFolders ==
    { [exists |-> FALSE, files |-> OldFiles({})],
      [exists |-> TRUE,  files |-> OldFiles({})],
      [exists |-> TRUE,  files |-> OldFiles({ <<"a">> \o MdExt })],
      [exists |-> TRUE,  files |-> OldFiles({ <<"a">> \o MdExt, <<"a", "_", "1">> \o MdExt })] }

InitExport ==
    /\ ConvIdle
    /\ ExtractIdle
    /\ StoreIdle
    /\ CallersIdle
    /\ \E f \in InitialFolders :
          /\ folder_exists = f.exists
          /\ folder_files = f.files
          /\ folder_initial = DOMAIN f.files
    /\ export_pool \in Pools
    /\ export_log = <<>>

SaveArtifact ==
    \E artifact \in export_pool :
        /\ Len(export_log) < MaxExports
        /\ LET r == save_artifact(artifact, folder_exists, folder_files)
           IN  /\ folder_exists' = r.folder_exists
               /\ folder_files' = r.files
               /\ export_log' = Append(export_log,
                                       [artifact |-> artifact, filename |-> r.filename,
                                        path |-> r.final_filename,
                                        existed |-> r.final_filename \in DOMAIN folder_files])
        /\ UNCHANGED <<folder_initial, export_pool, convVars, extractVars, storeVars, callerVars>>

NextExport == SaveArtifact

SpecExport == InitExport /\ [][NextExport]_vars

(***************************************************************************)
(* FirestoreClient.  A collection is a function from document ids to       *)
(* document data; ids are numbers and a stream yields the documents of a   *)
(* collection by ascending id.  A document that was never set does not     *)
(* show in the stream of its collection, even when it has a subcollection. *)
(***************************************************************************)
Ids == 1..MaxIds

\* a conversation id no save_conversation call returned
UnknownConversation == 0

ServerTimestamp == "SERVER_TIMESTAMP"

None == [none |-> TRUE]

\* uuid4 handing out any identifier, one it handed out before included
uuid4Reusing(given) == Ids

\* uuid.uuid4(): the identifiers the next call may return
uuid4(given) == Ids \ given

\* d[key] = value on a dict
With(d, key, value) ==
    [k \in DOMAIN d \cup {key} |-> IF k = key THEN value ELSE d[k]]

\* collection.document(id).set(data): creates or replaces the document
Set(collection, id, data) == With(collection, id, data)

\* collection.stream(): the document ids in the order of the store
RECURSIVE Stream(_)
Stream(ids) ==
    IF ids = {} THEN <<>>
    ELSE LET first == CHOOSE x \in ids : \A y \in ids : x <= y
         IN  <<first>> \o Stream(ids \ {first})

\* lines 28-53; write_ok tells whether set() returns or raises
save_conversation(convs, conversation_id, prompt, response, anthropic_message_id, write_ok) ==
    LET conversation_data == [created_at |-> ServerTimestamp, prompt |-> prompt,
                              response |-> response,
                              anthropic_message_id |-> anthropic_message_id]
    IN  IF write_ok
        THEN [conversations |-> Set(convs, conversation_id, conversation_data),
              raised |-> FALSE, result |-> conversation_id]
        ELSE [conversations |-> convs, raised |-> TRUE, result |-> None]

\* the timestamp put on the caller's own record
StampInPlace(artifact) ==
    [artifact_data |-> With(artifact, "created_at", ServerTimestamp),
     artifact |-> With(artifact, "created_at", ServerTimestamp)]

\* lines 75-76: the record that is stored, and the caller's record afterwards
StampCopy(artifact) ==
    [artifact_data |-> With(artifact, "created_at", ServerTimestamp),
     artifact |-> artifact]

\* lines 70-80: the loop from the i-th artifact on; ids[i] is what uuid4 returns
\* in the i-th round and the fail_at-th set() raises (none when fail_at = 0)
RECURSIVE SaveArtifactsLoop(_, _, _, _, _, _, _)
SaveArtifactsLoop(subs, conversation_id, artifacts_in, ids, fail_at, i, artifact_ids) ==
    IF i > Len(artifacts_in)
    THEN [subcollections |-> subs, raised |-> FALSE, result |-> artifact_ids,
          artifacts |-> artifacts_in]
    ELSE LET artifact_id == ids[i]
             stamped == StampCopy(artifacts_in[i])
             after == [artifacts_in EXCEPT ![i] = stamped.artifact]
         IN  IF fail_at = i
             THEN [subcollections |-> subs, raised |-> TRUE, result |-> None,
                   artifacts |-> after]
             ELSE SaveArtifactsLoop(
                      Set(subs, <<conversation_id, artifact_id>>, stamped.artifact_data),
                      conversation_id, after, ids, fail_at, i + 1,
                      Append(artifact_ids, artifact_id))

\* the writes of a failed call undone
save_artifactsRolledBack(subs, conversation_id, artifacts_in, ids, fail_at) ==
    LET r == SaveArtifactsLoop(subs, conversation_id, artifacts_in, ids, fail_at, 1, <<>>)
    IN  IF r.raised THEN [r EXCEPT !.subcollections = subs] ELSE r

\* lines 55-82
save_artifacts(subs, conversation_id, artifacts_in, ids, fail_at) ==
    SaveArtifactsLoop(subs, conversation_id, artifacts_in, ids, fail_at, 1, <<>>)

\* lines 84-99
get_conversation(convs, conversation_id) ==
    IF conversation_id \in DOMAIN convs THEN convs[conversation_id] ELSE None

\* the artifact ids stored under a conversation id
ArtifactIds(subs, conversation_id) ==
    { key[2] : key \in { k \in DOMAIN subs : k[1] = conversation_id } }

\* lines 101-118
get_artifacts(subs, conversation_id) ==
    LET ids == Stream(ArtifactIds(subs, conversation_id))
    IN  [i \in 1..Len(ids) |-> With(subs[<<conversation_id, ids[i]>>], "id", ids[i])]

\* lines 120-138
get_artifact(subs, conversation_id, artifact_id) ==
    IF <<conversation_id, artifact_id>> \in DOMAIN subs
    THEN With(subs[<<conversation_id, artifact_id>>], "id", artifact_id)
    ELSE None

\* Python's: sub in text
IsSubstring(sub, text) ==
    \E i \in 0..(Len(text) - Len(sub)) : SubSeq(text, i + 1, i + Len(sub)) = sub

\* lines 183-195: the inner loop; acc carries results, the documents read so
\* far and whether the function has returned
RECURSIVE ScanArtifacts(_, _, _, _, _, _)
ScanArtifacts(subs, conv_id, art_ids, search_term, limit, acc) ==
    IF acc.done \/ art_ids = <<>> THEN acc
    ELSE LET art_id == Head(art_ids)
             artifact == With(subs[<<conv_id, art_id>>], "id", art_id)
             hit == /\ "content" \in DOMAIN artifact
                    /\ IsSubstring(search_term, Lowered(artifact.content))
             results == IF hit
                        THEN Append(acc.results, With(artifact, "conversation_id", conv_id))
                        ELSE acc.results
         IN  ScanArtifacts(subs, conv_id, Tail(art_ids), search_term, limit,
                           [results |-> results,
                            scanned |-> Append(acc.scanned, <<conv_id, art_id>>),
                            done |-> hit /\ Len(results) >= limit])

\* lines 177-195: the outer loop
RECURSIVE ScanConversations(_, _, _, _, _)
ScanConversations(subs, conv_ids, search_term, limit, acc) ==
    IF acc.done \/ conv_ids = <<>> THEN acc
    ELSE ScanConversations(subs, Tail(conv_ids), search_term, limit,
                           ScanArtifacts(subs, Head(conv_ids),
                                         Stream(ArtifactIds(subs, Head(conv_ids))),
                                         search_term, limit, acc))

\* lines 159-197
search_artifacts_by_content(convs, subs, search_term, limit) ==
    ScanConversations(subs, Stream(DOMAIN convs), Lowered(search_term), limit,
                      [results |-> <<>>, scanned |-> <<>>, done |-> FALSE])

\* what callers store and look for
Exchanges == { [prompt |-> "p1", response |-> "r1", anthropic_message_id |-> "msg_a"],
               [prompt |-> "p2", response |-> "r2", anthropic_message_id |-> "None"] }

CodeArtifact == [type |-> "markdown_code_block", content |-> <<"a", "B">>, index |-> 0]

SectionRecord == [type |-> "markdown_section", heading |-> <<"T">>,
                  content |-> <<"A", "b", "c">>, index |-> 0]

BareArtifact == [type |-> "note", index |-> 1]

ArtifactLists == { <<>>, <<SectionRecord>>, <<CodeArtifact, BareArtifact>>,
                   <<CodeArtifact, CodeArtifact>> }

SearchTerms == { <<"A", "B">>, <<"c">> }

Limits == 0..MaxLimit

\* the sequences of n different identifiers uuid4 may return in n calls
FreshSeqs(given, n) ==
    { ids \in [1..n -> Ids] :
        \A i \in 1..n : ids[i] \in uuid4(given \cup { ids[j] : j \in 1..(i - 1) }) }

InitStore ==
    /\ ConvIdle
    /\ ExtractIdle
    /\ ExportIdle
    /\ StoreIdle
    /\ CallersIdle

SaveConversation ==
    \E exchange \in Exchanges, write_ok \in BOOLEAN :
      \E conversation_id \in uuid4(issued) :
        LET r == save_conversation(conversations, conversation_id, exchange.prompt,
                                   exchange.response, exchange.anthropic_message_id,
                                   write_ok)
        IN  /\ conversations' = r.conversations
            /\ issued' = issued \cup {conversation_id}
            /\ returned' = IF r.raised THEN returned
                           ELSE returned \cup {[id |-> r.result, prompt |-> exchange.prompt,
                                                response |-> exchange.response]}
            /\ store_last' = [op |-> "save_conversation",
                              outcome |-> IF r.raised THEN "raised" ELSE "ok",
                              result |-> r.result]
            /\ UNCHANGED <<subcollections, convVars, extractVars, exportVars, callerVars>>

SaveArtifacts ==
    \E conversation_id \in DOMAIN conversations \cup {UnknownConversation},
       artifacts_in \in ArtifactLists :
      \E fail_at \in 0..Len(artifacts_in) :
        LET rounds == IF fail_at = 0 THEN Len(artifacts_in) ELSE fail_at
        IN  \E ids \in FreshSeqs(issued, rounds) :
              LET r == save_artifacts(subcollections, conversation_id, artifacts_in,
                                      ids, fail_at)
              IN  /\ subcollections' = r.subcollections
                  /\ issued' = issued \cup { ids[i] : i \in 1..rounds }
                  /\ store_last' = [op |-> "save_artifacts",
                                    outcome |-> IF r.raised THEN "raised" ELSE "ok",
                                    conversation_id |-> conversation_id,
                                    artifacts |-> artifacts_in,
                                    artifacts_after |-> r.artifacts,
                                    fail_at |-> fail_at,
                                    result |-> r.result]
                  /\ UNCHANGED <<conversations, returned, convVars, extractVars, exportVars, callerVars>>

SearchArtifactsByContent ==
    \E search_term \in SearchTerms, limit \in Limits :
        LET r == search_artifacts_by_content(conversations, subcollections, search_term,
                                             limit)
        IN  /\ store_last' = [op |-> "search_artifacts_by_content", outcome |-> "ok",
                              search_term |-> search_term, limit |-> limit,
                              result |-> r.results, scanned |-> r.scanned]
            /\ UNCHANGED <<conversations, subcollections, issued, returned,
                           convVars, extractVars, exportVars, callerVars>>

NextStore ==
    \/ SaveConversation
    \/ SaveArtifacts
    \/ SearchArtifactsByContent

SpecStore == InitStore /\ [][NextStore]_vars

(***************************************************************************)
(* ask_claude called by two threads on the one conversation_state, with no *)
(* lock: a call is the sequence of its statements, and the statements of   *)
(* the two calls interleave in any order.                                  *)
(***************************************************************************)
Callers == {"t1", "t2"}

\* the prompt of the k-th call of caller p
CallerPrompt(p, k) == <<"question of ", p, DigitChars[k + 1]>>

\* line 77: conversation_state["messages"].append({"role": "user", ...})
AppendUser(cs, prompt) ==
    [cs EXCEPT !.messages = Append(@, [role |-> "user", content |-> prompt])]

\* the reply put right behind the first user message that has no reply yet
AppendAssistantPaired(cs, text_content) ==
    LET msgs == cs.messages
        open == { i \in 1..Len(msgs) :
                    /\ msgs[i].role = "user"
                    /\ (i = Len(msgs) \/ msgs[i + 1].role = "user") }
        at == IF open = {} THEN Len(msgs)
              ELSE CHOOSE i \in open : \A j \in open : i <= j
    IN  [cs EXCEPT !.messages =
            SubSeq(msgs, 1, at) \o <<[role |-> "assistant", content |-> text_content]>>
            \o SubSeq(msgs, at + 1, Len(msgs))]

\* line 78: conversation_state["messages"].append({"role": "assistant", ...})
AppendAssistant(cs, text_content) ==
    [cs EXCEPT !.messages = Append(@, [role |-> "assistant", content |-> text_content])]

\* line 79: conversation_state["last_updated"] = datetime.now().isoformat()
Touch(cs, t) == [cs EXCEPT !.last_updated = t]

NoCall == [count |-> 0, prompt |-> <<>>, full_prompt |-> <<>>, text_content |-> <<>>]

InitConcurrent ==
    /\ conversation_state \in {EmptyState, SixState}
    /\ now = 0
    /\ disk = NoFile
    /\ last = Idle
    /\ foreign = FALSE
    /\ ExtractIdle
    /\ ExportIdle
    /\ StoreIdle
    /\ pc = [p \in Callers |-> "idle"]
    /\ call = [p \in Callers |-> NoCall]

\* lines 44-63: the caller enters ask_claude and builds full_prompt
ComposeStep(p) ==
    /\ pc[p] = "idle"
    /\ call[p].count < MaxCalls
    /\ \E include_history \in BOOLEAN :
         LET prompt == CallerPrompt(p, call[p].count + 1)
         IN  call' = [call EXCEPT ![p] =
                        [count |-> call[p].count + 1, prompt |-> prompt,
                         full_prompt |-> Compose(conversation_state, prompt,
                                                 include_history, TRUE),
                         text_content |-> <<>>]]
    /\ pc' = [pc EXCEPT ![p] = "composed"]
    /\ UNCHANGED <<convVars, extractVars, exportVars, storeVars>>

\* lines 68-74: the model call returns, or raises and ends the call
SendStep(p) ==
    /\ pc[p] = "composed"
    /\ \E api \in ApiResults :
         LET sent == send_message(call[p].full_prompt, api)
         IN  IF sent.raised
             THEN /\ pc' = [pc EXCEPT ![p] = "idle"]
                  /\ UNCHANGED call
             ELSE /\ pc' = [pc EXCEPT ![p] = "received"]
                  /\ call' = [call EXCEPT ![p].text_content =
                                 TextContent(sent.message.content)]
    /\ UNCHANGED <<convVars, extractVars, exportVars, storeVars>>

\* line 77
AppendUserStep(p) ==
    /\ pc[p] = "received"
    /\ conversation_state' = AppendUser(conversation_state, call[p].prompt)
    /\ pc' = [pc EXCEPT ![p] = "user appended"]
    /\ UNCHANGED <<now, disk, last, foreign, call, extractVars, exportVars, storeVars>>

\* line 78
AppendAssistantStep(p) ==
    /\ pc[p] = "user appended"
    /\ conversation_state' = AppendAssistant(conversation_state, call[p].text_content)
    /\ pc' = [pc EXCEPT ![p] = "assistant appended"]
    /\ UNCHANGED <<now, disk, last, foreign, call, extractVars, exportVars, storeVars>>

\* line 79, and the return
TouchStep(p) ==
    /\ pc[p] = "assistant appended"
    /\ conversation_state' = Touch(conversation_state, now + 1)
    /\ now' = now + 1
    /\ pc' = [pc EXCEPT ![p] = "idle"]
    /\ UNCHANGED <<disk, last, foreign, call, extractVars, exportVars, storeVars>>

NextConcurrent ==
    \E p \in Callers :
        \/ ComposeStep(p)
        \/ SendStep(p)
        \/ AppendUserStep(p)
        \/ AppendAssistantStep(p)
        \/ TouchStep(p)

SpecConcurrent == InitConcurrent /\ [][NextConcurrent]_vars

(***************************************************************************)
(* Properties of the conversation state                                    *)
(***************************************************************************)
messages == conversation_state.messages

ExchangeOps == {"ask_claude", "share_files_with_claude", "generate_conversation_summary"}

\* the text a message is expected to contribute to a prompt
ExpectedLine(msg) ==
    <<IF msg.role = "user" THEN "Human" ELSE "Assistant", ": ">> \o msg.content \o <<"\n\n">>

\* the expected rendering of msgs[from..to] (1-based, inclusive)
RECURSIVE ExpectedLines(_, _, _)
ExpectedLines(msgs, from, to) ==
    IF from > to THEN <<>>
    ELSE ExpectedLines(msgs, from, to - 1) \o ExpectedLine(msgs[to])

Occurs(tok, text) == \E i \in 1..Len(text) : text[i] = tok

FirstIndex(tok, text) == CHOOSE i \in 1..Len(text) : text[i] = tok /\ \A j \in 1..(i - 1) : text[j] # tok

\* sub is a contiguous part of text
Contains(text, sub) ==
    \E i \in 0..(Len(text) - Len(sub)) : SubSeq(text, i + 1, i + Len(sub)) = sub

\* what stands between the previous-messages header and the new-question marker
HistoryRegion(text) ==
    SubSeq(text, FirstIndex("# Previous Messages\n", text) + 1,
           FirstIndex("# New Question\n", text) - 1)

\* C1: for a state with n messages (even or odd), the prompt ask_claude composes
\* with include_history=true holds exactly the last min(n, 6) messages, in
\* conversation order, and no earlier one.
C1_WindowIsLastSix ==
    [][ (last'.op = "ask_claude" /\ last'.include_history) =>
          LET n == Len(messages)
              k == Min(n, 6)
              sent == last'.calls[1]
          IN  IF n = 0 THEN ~Occurs("# Previous Messages\n", sent)
              ELSE /\ Occurs("# Previous Messages\n", sent)
                   /\ Occurs("# New Question\n", sent)
                   /\ HistoryRegion(sent) = ExpectedLines(messages, n - k + 1, n) ]_vars

C1_Witness ==
    /\ last.op = "ask_claude" /\ last.include_history /\ last.outcome = "ok"
    /\ Len(messages) = 9

Even(n) == n % 2 = 0

\* C2: from the empty state every successful call appends a user message then an
\* assistant message; without a foreign state file the length of messages is
\* even and roles alternate user, assistant, and it is twice the number of
\* successful calls as long as no saved state was loaded back.
C2_PairsAppended ==
    /\ [] (~foreign =>
             /\ Even(Len(messages))
             /\ \A i \in 1..Len(messages) :
                   messages[i].role = IF Even(i) THEN "assistant" ELSE "user"
             /\ ~disk.written => Len(messages) = 2 * now)
    /\ [][ (last'.op \in ExchangeOps /\ last'.outcome = "ok") =>
             /\ Len(messages') = Len(messages) + 2
             /\ SubSeq(messages', 1, Len(messages)) = messages
             /\ messages'[Len(messages) + 1] = [role |-> "user", content |-> last'.prompt]
             /\ messages'[Len(messages) + 2] = [role |-> "assistant", content |-> last'.content] ]_vars

C2_Witness ==
    /\ ~foreign /\ disk.written /\ Len(messages) = 4
    /\ last.op = "load_conversation_state" /\ last.outcome = "ok"

\* C3: when the model call fails, the error reaches the caller after exactly one
\* attempt and nothing is appended: messages and last_updated are as before.
C3_FailureLeavesHistory ==
    [][ (last'.op \in ExchangeOps /\ last'.outcome # "noop" /\ ~last'.api_ok) =>
          /\ last'.outcome = "raised"
          /\ Len(last'.calls) = 1
          /\ messages' = messages
          /\ conversation_state'.last_updated = conversation_state.last_updated ]_vars

C3_Witness ==
    /\ last.op = "ask_claude" /\ ~last.api_ok /\ last.outcome = "raised"
    /\ Len(messages) > 0

\* C6: load_conversation_state on an absent file does not raise and leaves the
\* fresh empty state, whatever the state was before.
C6_AbsentFileGivesEmptyState ==
    (last.op = "load_conversation_state" /\ ~disk.exists) =>
        /\ last.outcome # "raised"
        /\ conversation_state.messages = <<>>
        /\ conversation_state.summary = <<>>
        /\ conversation_state.shared_files = <<>>

\* C9: the prompt generate_conversation_summary sends holds every message of
\* the history in order, and neither a previous-summary block nor a
\* previous-messages window.
C9_SummaryPromptIsWholeHistory ==
    [][ (last'.op = "generate_conversation_summary" /\ last'.outcome # "noop") =>
          LET sent == last'.calls[1]
          IN  /\ Len(last'.calls) = 1
              /\ Contains(sent, ExpectedLines(messages, 1, Len(messages)))
              /\ ~Occurs("# Previous Conversation Summary\n", sent)
              /\ ~Occurs("# Previous Messages\n", sent)
              /\ ~Occurs("# New Question\n", sent) ]_vars

C9_Witness ==
    /\ last.op = "generate_conversation_summary" /\ Len(last.calls) = 1
    /\ last.outcome = "raised"
    /\ conversation_state.summary # <<>>
    /\ Len(messages) > 6

\* C10: with fewer than 2 messages generate_conversation_summary is a no-op: it
\* does not raise, calls the model not at all and leaves the state as it was.
C10_SummaryNeedsTwoMessages ==
    [][ (last'.op = "generate_conversation_summary" /\ Len(messages) < 2) =>
          /\ last'.outcome = "noop"
          /\ last'.calls = <<>>
          /\ conversation_state' = conversation_state ]_vars

C10_Witness ==
    /\ last.op = "generate_conversation_summary" /\ last.outcome = "noop"
    /\ Len(messages) = 1

\* C11: a successful generate_conversation_summary leaves summary equal to the
\* text of that call's response, whatever the summary was before (also when the
\* text is empty); when the model call fails the summary is as before.
C11_SummaryIsLastResponse ==
    [][ (last'.op = "generate_conversation_summary" /\ last'.outcome # "noop") =>
          IF last'.api_ok
          THEN /\ last'.outcome = "ok"
               /\ conversation_state'.summary = last'.content
               /\ conversation_state'.summary = messages'[Len(messages')].content
          ELSE conversation_state'.summary = conversation_state.summary ]_vars

\* the one successful call of the run summarised a loaded history whose summary
\* was not empty, and the response had no text
C11_Witness ==
    /\ last.op = "generate_conversation_summary" /\ last.outcome = "ok"
    /\ now = 1 /\ Len(messages) = 9
    /\ last.content = <<>>
    /\ conversation_state.summary = <<>>

SummaryHeader == "# Previous Conversation Summary\n"

\* sub stands in text from position i on
StandsAt(text, i, sub) ==
    i + Len(sub) - 1 <= Len(text) /\ SubSeq(text, i, i + Len(sub) - 1) = sub

\* C12: the prompt ask_claude composes ends with the new prompt; what stands
\* before it starts with the previous-summary block iff include_summary is set
\* and the summary is not empty, and holds the previous-messages block closed by
\* the new-question marker iff include_history is set and there is a message;
\* with both blocks the summary block comes first.
C12_PromptLayout ==
    [][ (last'.op \in ExchangeOps /\ last'.outcome # "noop") =>
          LET sent == last'.calls[1]
              new == last'.prompt
              lead == SubSeq(sent, 1, Len(sent) - Len(new))
              summary == conversation_state.summary
              block == <<SummaryHeader>> \o summary \o <<"\n\n">>
              hasSummary == last'.include_summary /\ summary # <<>>
              hasHistory == last'.include_history /\ messages # <<>>
          IN  /\ Len(sent) >= Len(new)
              /\ SubSeq(sent, Len(sent) - Len(new) + 1, Len(sent)) = new
              /\ hasSummary <=> StandsAt(lead, 1, block)
              /\ hasSummary <=> Occurs(SummaryHeader, lead)
              /\ hasHistory <=> Occurs("# Previous Messages\n", lead)
              /\ hasHistory =>
                     /\ lead[Len(lead)] = "# New Question\n"
                     /\ lead[IF hasSummary THEN Len(block) + 1 ELSE 1] = "# Previous Messages\n"
              /\ ~hasHistory => lead = (IF hasSummary THEN block ELSE <<>>) ]_vars

\* a prompt sent with both blocks
C12_Witness ==
    /\ last.op = "ask_claude" /\ last.include_history /\ last.include_summary
    /\ Len(last.calls) = 1
    /\ last.calls[1][1] = SummaryHeader
    /\ Occurs("# Previous Messages\n", last.calls[1])
    /\ last.calls[1][Len(last.calls[1])] = "hello"

shared_files == conversation_state.shared_files

Elements(seq) == { seq[i] : i \in 1..Len(seq) }

NoRepeat(seq) == \A i, j \in 1..Len(seq) : seq[i] = seq[j] => i = j

\* the paths a sharing prompt names, in the order of the file blocks
RECURSIVE PathsNamed(_)
PathsNamed(prompt) ==
    IF Len(prompt) < 2 THEN <<>>
    ELSE (IF Head(prompt) = "\n<file path=" THEN <<prompt[2]>> ELSE <<>>)
         \o PathsNamed(Tail(prompt))

\* C13: from the empty state shared_files never holds a path twice; a
\* share_files_with_claude call keeps the tracked paths where they are and
\* appends each path it sees for the first time, once, in the order of first
\* sight; when every path of the call is tracked already shared_files is as
\* before.
C13_SharedFilesFirstSeenOnce ==
    /\ [] (~foreign => NoRepeat(shared_files))
    /\ [][ (last'.op = "share_files_with_claude" /\ ~foreign) =>
             LET paths == PathsNamed(last'.prompt)
                 old == Len(shared_files)
                 first(p) == FirstIndex(p, paths)
             IN  /\ paths # <<>>
                 /\ SubSeq(shared_files', 1, old) = shared_files
                 /\ Elements(shared_files') = Elements(shared_files) \cup Elements(paths)
                 /\ NoRepeat(shared_files')
                 /\ \A i, j \in (old + 1)..Len(shared_files') :
                       i < j => first(shared_files'[i]) < first(shared_files'[j])
                 /\ Elements(paths) \subseteq Elements(shared_files) =>
                       shared_files' = shared_files ]_vars

\* a.py was shared first, then a list naming b.py twice and a.py again
C13_Witness ==
    /\ last.op = "share_files_with_claude" /\ ~foreign
    /\ PathsNamed(last.prompt) = <<"b.py", "a.py", "b.py">>
    /\ shared_files = <<"a.py", "b.py">>

\* C14: load_conversation_state on the file save_conversation_state wrote
\* restores the state that was saved: the messages in order, the summary, the
\* shared files in order and last_updated; the operation after the load works
\* on the loaded state.
C14_SaveLoadRoundTrip ==
    /\ [][ (last'.op = "load_conversation_state" /\ disk.written) =>
             /\ last'.outcome = "ok"
             /\ messages' = disk.saved.messages
             /\ conversation_state'.summary = disk.saved.summary
             /\ shared_files' = disk.saved.shared_files
             /\ conversation_state'.last_updated = disk.saved.last_updated
             /\ disk' = disk ]_vars
    /\ [][ (last.op = "load_conversation_state" /\ disk.written /\ disk' = disk
              /\ last'.op = "ask_claude") =>
             LET sent == last'.calls[1]
                 n == Len(disk.saved.messages)
             IN  /\ (last'.include_history /\ n > 0) =>
                       HistoryRegion(sent) =
                           ExpectedLines(disk.saved.messages, n - Min(n, 6) + 1, n)
                 /\ (last'.include_summary /\ disk.saved.summary # <<>>) =>
                       StandsAt(sent, 2, disk.saved.summary)
                 /\ last'.outcome = "ok" =>
                       /\ Len(messages') = n + 2
                       /\ SubSeq(messages', 1, n) = disk.saved.messages
                       /\ shared_files' = disk.saved.shared_files ]_vars

\* a saved state of 9 messages, a summary and two shared files is loaded back
\* over a live state that a later exchange had changed
C14_Witness ==
    /\ last.op = "load_conversation_state" /\ last.outcome = "ok" /\ disk.written
    /\ now = 2
    /\ Len(messages) = 9
    /\ conversation_state.summary = <<"old summary">>
    /\ Len(shared_files) = 2
    /\ conversation_state.last_updated = 1

\* C18: when the state file exists but cannot be decoded, the failure of
\* load_conversation_state reaches the caller and the live state is exactly as
\* before.
C18_MalformedFileLeavesState ==
    [][ (last'.op = "load_conversation_state" /\ disk.exists /\ disk.doc = Garbage) =>
          /\ last'.outcome = "raised"
          /\ conversation_state' = conversation_state
          /\ disk' = disk ]_vars

\* the load failed on a live state that holds an exchange and a shared file
C18_Witness ==
    /\ last.op = "load_conversation_state" /\ last.outcome = "raised"
    /\ disk.exists /\ disk.doc = Garbage
    /\ Len(messages) = 2
    /\ shared_files # <<>>

SummaryInstruction ==
    "\nPlease provide a concise summary of our conversation so far. [...] Here is the conversation to summarize:\n\n"

\* the message is the user side of a recorded summarisation
IsSummarisation(msg) ==
    msg.role = "user" /\ msg.content # <<>> /\ msg.content[1] = SummaryInstruction

\* how many times tok stands in text
RECURSIVE Count(_, _)
Count(tok, text) ==
    IF text = <<>> THEN 0
    ELSE (IF Head(text) = tok THEN 1 ELSE 0) + Count(tok, Tail(text))

\* C20: a successful generate_conversation_summary is recorded as an exchange:
\* messages grows by a user message holding the whole summarisation prompt
\* (instruction and rendered history) and an assistant message holding the new
\* summary; a later summarisation renders that prompt again, and so does every
\* later history window that reaches it.
C20_SummarisationIsRecorded ==
    /\ [][ (last'.op = "generate_conversation_summary" /\ last'.outcome = "ok") =>
             LET n == Len(messages)
             IN  /\ Len(messages') = n + 2
                 /\ SubSeq(messages', 1, n) = messages
                 /\ messages'[n + 1].role = "user"
                 /\ messages'[n + 1].content =
                       <<SummaryInstruction>> \o ExpectedLines(messages, 1, n) \o <<"\n">>
                 /\ messages'[n + 1].content = last'.calls[1]
                 /\ IsSummarisation(messages'[n + 1])
                 /\ messages'[n + 2] =
                       [role |-> "assistant", content |-> conversation_state'.summary] ]_vars
    /\ [][ (last'.op \in ExchangeOps /\ last'.outcome # "noop") =>
             LET n == Len(messages)
                 from == IF last'.op = "generate_conversation_summary" THEN 1
                         ELSE IF last'.include_history THEN n - Min(n, 6) + 1
                         ELSE n + 1
             IN  \A i \in from..n :
                    IsSummarisation(messages[i]) =>
                        Contains(last'.calls[1], ExpectedLine(messages[i])) ]_vars

\* the second summarisation of a run: its prompt holds the instruction twice,
\* once as its own and once inside the recorded first summarisation
C20_Witness ==
    /\ last.op = "generate_conversation_summary" /\ last.outcome = "ok"
    /\ Count(SummaryInstruction, last.calls[1]) = 2
    /\ IsSummarisation(messages[Len(messages) - 1])
    /\ IsSummarisation(messages[Len(messages) - 3])

\* C21: share_files_with_claude tracks the paths before the exchange is sent:
\* when the model call fails the error reaches the caller, messages and
\* last_updated are as before, and shared_files holds every path of the call.
C21_FailedShareKeepsPaths ==
    [][ (last'.op = "share_files_with_claude" /\ ~last'.api_ok) =>
          LET paths == PathsNamed(last'.prompt)
          IN  /\ last'.outcome = "raised"
              /\ Len(last'.calls) = 1
              /\ messages' = messages
              /\ conversation_state'.last_updated = conversation_state.last_updated
              /\ conversation_state'.summary = conversation_state.summary
              /\ paths # <<>>
              /\ Elements(paths) \subseteq Elements(shared_files')
              /\ SubSeq(shared_files', 1, Len(shared_files)) = shared_files
              /\ Elements(shared_files') = Elements(shared_files) \cup Elements(paths) ]_vars

\* no exchange of the run succeeded and no file was loaded, yet two paths
\* are tracked
C21_Witness ==
    /\ last.op = "share_files_with_claude" /\ last.outcome = "raised"
    /\ now = 0 /\ ~foreign
    /\ messages = <<>>
    /\ shared_files = <<"b.py", "a.py">>

(***************************************************************************)
(* Properties of extract_markdown                                          *)
(***************************************************************************)
IsBlank(c) == c \in {" ", "\n", "\t", "\r"}

\* text without its leading and trailing blanks
Trimmed(text) ==
    IF \A i \in 1..Len(text) : IsBlank(text[i]) THEN <<>>
    ELSE LET first == CHOOSE i \in 1..Len(text) :
                          ~IsBlank(text[i]) /\ \A j \in 1..(i - 1) : IsBlank(text[j])
             final == CHOOSE i \in 1..Len(text) :
                          ~IsBlank(text[i]) /\ \A j \in (i + 1)..Len(text) : IsBlank(text[j])
         IN  SubSeq(text, first, final)

FencedArtifacts == { i \in 1..Len(artifacts) : artifacts[i].type = "markdown_code_block" }

SectionArtifactsAt == { i \in 1..Len(artifacts) : artifacts[i].type = "markdown_section" }

\* C4: a heading match yields a section artifact if and only if its trimmed
\* body is not part of the content of any fenced-block artifact of the same
\* response; for "fence A fence, heading B, body C" the section is dropped only
\* when C is part of A, and otherwise both artifacts are returned.
C4_SectionKeptIffNotInFence ==
    extracted =>
        LET heading_matches == FindHeadingBlocks(response_text, 1)
        IN  /\ \A k \in 1..Len(heading_matches) :
                  (\E i \in SectionArtifactsAt : artifacts[i].index = k - 1)
                  <=> ~\E j \in FencedArtifacts :
                          Contains(artifacts[j].content, Trimmed(heading_matches[k].content))
            /\ \A A \in Words, C \in Words :
                  response_text = FencedThenHeaded(A, <<"t">>, C) =>
                      artifacts =
                          <<[type |-> "markdown_code_block", content |-> A, index |-> 0]>>
                          \o (IF Contains(A, C) THEN <<>>
                              ELSE <<[type |-> "markdown_section", heading |-> <<"t">>,
                                      content |-> <<"#", " ", "t", "\n", "\n">> \o C,
                                      index |-> 0]>>)

C4_Witness ==
    /\ extracted
    /\ response_text = FencedThenTwoSections(<<"a">>, <<"t">>, <<"b">>)
    /\ Len(artifacts) = 2
    /\ artifacts[2].type = "markdown_section" /\ artifacts[2].index = 0

\* the places where a line starts with "# "
HeadingLines(text) ==
    { p \in 1..Len(text) : StartsWith(text, p, <<"#", " ">>) /\ (p = 1 \/ text[p - 1] = "\n") }

\* place p lies between the fences of a fenced block
InsideFence(text, p) ==
    \E j \in 1..Len(FindCodeBlocks(text, 1)) :
        LET cb == FindCodeBlocks(text, 1)[j] IN cb.open + 3 <= p /\ p < cb.close

\* C5: when every "# " heading line of the response lies inside a fenced block,
\* extract_markdown returns no markdown_section artifact.
C5_FencedHeadingsNotCountedTwice ==
    (extracted /\ HeadingLines(response_text) # {}
               /\ \A p \in HeadingLines(response_text) : InsideFence(response_text, p))
        => SectionArtifactsAt = {}

(***************************************************************************)
(* Properties of save_artifact                                             *)
(***************************************************************************)
Letter(c) == c \in {"A", "B", "a", "b", "r", "t", "i", "f", "c"}

Digit(c) == c \in {"0", "1", "2", "3", "4", "5", "6", "7", "8", "9"}

Kept(c) == Letter(c) \/ Digit(c) \/ c = " " \/ c = "-" \/ c = "_"

Small(c) == IF c = "A" THEN "a" ELSE IF c = "B" THEN "b" ELSE c

\* the heading with every other character replaced by an underscore, spaces
\* replaced by underscores, lower-cased
SubstitutedName(heading) ==
    [i \in 1..Len(heading) |->
        IF ~Kept(heading[i]) \/ heading[i] = " " THEN "_" ELSE Small(heading[i])]

\* the heading with every other character removed, spaces replaced by
\* underscores, lower-cased
DiscardedName(heading) ==
    LET kept == SelectSeq(heading, Kept)
    IN  [i \in 1..Len(kept) |-> IF kept[i] = " " THEN "_" ELSE Small(kept[i])]

HasHeading(a) == a.type = "markdown_section" /\ "heading" \in DOMAIN a

SmallNumber(n) == <<"0", "1", "2", "3", "4", "5", "6", "7", "8", "9">>[n + 1]

IndexName(a) ==
    <<"a", "r", "t", "i", "f", "a", "c", "t", "_">>
    \o (IF a.index < 10 THEN <<SmallNumber(a.index)>>
        ELSE <<SmallNumber(a.index \div 10), SmallNumber(a.index % 10)>>)

\* C7 as amended: the base name of a section artifact with a heading is the
\* heading with every character other than alphanumerics, spaces, hyphens and
\* underscores replaced by an underscore, then spaces replaced by underscores,
\* lower-cased; any other artifact is named artifact_<index>.
C7_BaseNameSubstitutes ==
    \A i \in 1..Len(export_log) :
        LET e == export_log[i]
        IN  e.filename = IF HasHeading(e.artifact) THEN SubstitutedName(e.artifact.heading)
                         ELSE IndexName(e.artifact)

C7_Witness ==
    \E i \in 1..Len(export_log) :
        /\ HasHeading(export_log[i].artifact)
        /\ export_log[i].artifact.heading = <<"A", "!">>
        /\ export_log[i].filename = <<"a", "_">>

\* C7 as stated: the other characters are discarded.
C7_BaseNameDiscards ==
    \A i \in 1..Len(export_log) :
        LET e == export_log[i]
        IN  e.filename = IF HasHeading(e.artifact) THEN DiscardedName(e.artifact.heading)
                         ELSE IndexName(e.artifact)

\* base.md, base_1.md, base_2.md, ...
NthName(base, i) ==
    IF i = 1 THEN base \o <<".", "m", "d">>
    ELSE base \o <<"_", SmallNumber(i - 1), ".", "m", "d">>

\* C8: the paths save_artifact returns in one run are pairwise distinct and none
\* existed before its call, so every file written and every file found in the
\* folder keeps its content; N artifacts of one base name, exported into a
\* folder that holds none of the names, go to base.md, base_1.md, ...
\* base_(N-1).md in creation order.
C8_ExportPathsDistinct ==
    /\ \A i \in 1..Len(export_log) : ~export_log[i].existed
    /\ \A i, j \in 1..Len(export_log) : i # j => export_log[i].path # export_log[j].path
    /\ \A i \in 1..Len(export_log) :
          /\ export_log[i].path \in DOMAIN folder_files
          /\ folder_files[export_log[i].path] = export_log[i].artifact.content
    /\ \A p \in folder_initial : p \in DOMAIN folder_files /\ folder_files[p] = <<"o", "l", "d">>
    /\ ( /\ export_log # <<>>
         /\ \A i \in 1..Len(export_log) : export_log[i].filename = export_log[1].filename
         /\ \A i \in 1..Len(export_log) :
               NthName(export_log[1].filename, i) \notin folder_initial )
       => \A i \in 1..Len(export_log) :
             export_log[i].path = NthName(export_log[1].filename, i)

C8_Witness ==
    /\ Len(export_log) = 3
    /\ \A i \in 1..3 : export_log[i].filename = <<"a", "_">>
    /\ export_log[3].path = <<"a", "_", "_", "2", ".", "m", "d">>
    /\ folder_exists

(***************************************************************************)
(* Properties of the document store                                        *)
(***************************************************************************)
ReturnedIds == { r.id : r \in returned }

\* C15: get_conversation on every id save_conversation ever returned gives the
\* prompt and the response of the call that returned it; save_conversation
\* returns an id it never returned before and that names no stored conversation,
\* and no save changes a conversation stored earlier.
C15_ConversationsAreKept ==
    /\ [] (\A r \in returned :
             LET doc == get_conversation(conversations, r.id)
             IN  /\ doc # None
                 /\ doc.prompt = r.prompt
                 /\ doc.response = r.response)
    /\ [][ (store_last'.op = "save_conversation" /\ store_last'.outcome = "ok") =>
             /\ store_last'.result \notin ReturnedIds
             /\ store_last'.result \notin DOMAIN conversations
             /\ get_conversation(conversations', store_last'.result) # None
             /\ \A id \in DOMAIN conversations : conversations'[id] = conversations[id] ]_vars
    /\ [][ store_last'.op = "save_artifacts" => conversations' = conversations ]_vars

\* two conversations with different inputs were saved, then an artifact
C15_Witness ==
    /\ Cardinality(ReturnedIds) = 2
    /\ { r.prompt : r \in returned } = {"p1", "p2"}
    /\ store_last.op = "save_artifacts" /\ store_last.outcome = "ok"
    /\ Len(store_last.result) = 1

\* every identifier the store holds
StoredIds == DOMAIN conversations \cup { key[2] : key \in DOMAIN subcollections }

\* C16: a save_artifacts call that returns gives one identifier per input
\* artifact, in input order; the identifiers are new and pairwise different,
\* the i-th names a record under conversation_id that holds the fields of the
\* i-th input artifact and created_at, nothing else is written, and the
\* caller's artifact records are as they were.
C16_OneFreshIdPerArtifact ==
    [][ (store_last'.op = "save_artifacts" /\ store_last'.outcome = "ok") =>
          LET given == store_last'.artifacts
              ids == store_last'.result
              conv == store_last'.conversation_id
          IN  /\ Len(ids) = Len(given)
              /\ \A i \in 1..Len(ids) : ids[i] \notin (issued \cup StoredIds)
              /\ \A i, j \in 1..Len(ids) : ids[i] = ids[j] => i = j
              /\ \A i \in 1..Len(ids) :
                    LET doc == get_artifact(subcollections', conv, ids[i])
                    IN  /\ doc # None
                        /\ DOMAIN doc = DOMAIN given[i] \cup {"created_at", "id"}
                        /\ \A k \in DOMAIN given[i] : doc[k] = given[i][k]
                        /\ doc["id"] = ids[i]
              /\ DOMAIN subcollections' =
                    DOMAIN subcollections \cup { <<conv, ids[i]>> : i \in 1..Len(ids) }
              /\ \A key \in DOMAIN subcollections : subcollections'[key] = subcollections[key]
              /\ store_last'.artifacts_after = given ]_vars

\* the same artifact given twice under a stored conversation: two records
C16_Witness ==
    /\ store_last.op = "save_artifacts" /\ store_last.outcome = "ok"
    /\ store_last.conversation_id \in DOMAIN conversations
    /\ store_last.artifacts = <<CodeArtifact, CodeArtifact>>
    /\ Len(store_last.result) = 2
    /\ Cardinality(ArtifactIds(subcollections, store_last.conversation_id)) = 2

\* two characters are the same letter, case set aside
SameLetter(c, d) ==
    \/ c = d
    \/ {c, d} \in { {"A", "a"}, {"B", "b"} }

\* term stands in content, case set aside
ContainsIgnoringCase(content, term) ==
    \E i \in 0..(Len(content) - Len(term)) :
        \A k \in 1..Len(term) : SameLetter(content[i + k], term[k])

\* the artifact documents a scan passes: those of the streamed conversations
Scannable == { key \in DOMAIN subcollections : key[1] \in DOMAIN conversations }

\* scan order: conversations in stream order, then artifacts in stream order
Before(p, q) == p[1] < q[1] \/ (p[1] = q[1] /\ p[2] < q[2])

Matches(term) ==
    { key \in Scannable :
        /\ "content" \in DOMAIN subcollections[key]
        /\ ContainsIgnoringCase(subcollections[key].content, term) }

\* the place of a document among the matching ones, in scan order
Rank(key, term) == 1 + Cardinality({ q \in Matches(term) : Before(q, key) })

\* the search returned the first min(limit, M) matching artifacts in scan
\* order, each with its id and conversation id, and read no document behind
\* the limit-th match
SearchReturnsFirst(limit, term, result, scanned) ==
    LET M == Cardinality(Matches(term))
    IN  /\ Len(result) = Min(limit, M)
        /\ Len(result) <= limit
        /\ \A i \in 1..Len(result) :
              LET key == <<result[i].conversation_id, result[i].id>>
              IN  /\ key \in Matches(term)
                  /\ Rank(key, term) = i
                  /\ result[i] = With(With(subcollections[key], "id", key[2]),
                                      "conversation_id", key[1])
        /\ limit >= 1 =>
              \A i \in 1..Len(scanned) :
                 Cardinality({ q \in Matches(term) : Before(q, scanned[i]) }) < limit

\* C17: for every store state, term and limit >= 0 search_artifacts_by_content
\* returns the first min(limit, M) matching artifacts in scan order, M being the
\* number of artifacts whose content holds the term case-insensitively: never
\* more than limit results, and no artifact is read after the limit-th match.
C17_SearchReturnsFirstMatches ==
    (store_last.op = "search_artifacts_by_content" /\ store_last.limit >= 0) =>
        SearchReturnsFirst(store_last.limit, store_last.search_term,
                           store_last.result, store_last.scanned)

\* C19: the writes are not transactional.  When save_conversation has returned
\* and save_artifacts has not run, the conversation is stored with no artifact;
\* when the j-th write of save_artifacts fails, the error reaches the caller,
\* no identifier is returned, and the first j-1 artifacts stay stored under the
\* conversation beside what was there before.
C19_WritesAreNotTransactional ==
    /\ [][ (store_last'.op = "save_conversation" /\ store_last'.outcome = "ok") =>
             /\ get_conversation(conversations', store_last'.result) # None
             /\ get_artifacts(subcollections', store_last'.result) = <<>>
             /\ subcollections' = subcollections ]_vars
    /\ [][ (store_last'.op = "save_artifacts" /\ store_last'.fail_at >= 1) =>
             LET j == store_last'.fail_at
                 conv == store_last'.conversation_id
                 given == store_last'.artifacts
                 new == DOMAIN subcollections' \ DOMAIN subcollections
             IN  /\ store_last'.outcome = "raised"
                 /\ store_last'.result = None
                 /\ Cardinality(new) = j - 1
                 /\ \E ids \in [1..(j - 1) -> Ids] :
                       /\ new = { <<conv, ids[i]>> : i \in 1..(j - 1) }
                       /\ \A i \in 1..(j - 1) :
                             /\ DOMAIN subcollections'[<<conv, ids[i]>>] =
                                   DOMAIN given[i] \cup {"created_at"}
                             /\ \A k \in DOMAIN given[i] :
                                   subcollections'[<<conv, ids[i]>>][k] = given[i][k]
                 /\ \A key \in DOMAIN subcollections :
                       subcollections'[key] = subcollections[key]
                 /\ conversations' = conversations ]_vars

\* the second write of a call failed: one artifact of two is stored
C19_Witness ==
    /\ store_last.op = "save_artifacts" /\ store_last.outcome = "raised"
    /\ store_last.fail_at = 2
    /\ store_last.conversation_id \in DOMAIN conversations
    /\ Len(get_artifacts(subcollections, store_last.conversation_id)) = 1

(***************************************************************************)
(* Properties of concurrent callers                                        *)
(***************************************************************************)
\* the caller has built its prompt and appended nothing yet
Unrecorded(q) == pc[q] \in {"composed", "received"}

\* C22: without mutual exclusion two overlapping ask_claude calls can leave an
\* inconsistent history.  A call builds its window from the messages present
\* when it composes, so it holds nothing of a call that has composed and not
\* yet appended; and each append goes to the end of the messages present at
\* that moment, whoever appended last, so the appends of two calls interleave.
C22_OverlappingCallsInterleave ==
    /\ [][ \A p \in Callers :
             (pc[p] = "idle" /\ pc'[p] = "composed") =>
                LET sent == call'[p].full_prompt
                    n == Len(messages)
                IN  /\ StandsAt(sent, Len(sent) - Len(call'[p].prompt) + 1, call'[p].prompt)
                    /\ Occurs("# Previous Messages\n", sent) =>
                          HistoryRegion(sent) = ExpectedLines(messages, n - Min(n, 6) + 1, n)
                    /\ \A q \in Callers \ {p} :
                          Unrecorded(q) => ~Contains(sent, call[q].prompt) ]_vars
    /\ [][ \A p \in Callers :
             (pc[p] = "received" /\ pc'[p] = "user appended") =>
                messages' = Append(messages, [role |-> "user", content |-> call[p].prompt])
          ]_vars
    /\ [][ \A p \in Callers :
             (pc[p] = "user appended" /\ pc'[p] = "assistant appended") =>
                messages' = Append(messages, [role |-> "assistant",
                                              content |-> call[p].text_content]) ]_vars

\* both calls have returned: each sent a history window without the other's
\* question, and the two user messages stand side by side before the replies
C22_Witness ==
    /\ \A p \in Callers : pc[p] = "idle" /\ call[p].count = 1
    /\ now = 2
    /\ Len(messages) = 10
    /\ messages[7] = [role |-> "user", content |-> CallerPrompt("t1", 1)]
    /\ messages[8] = [role |-> "user", content |-> CallerPrompt("t2", 1)]
    /\ messages[9].role = "assistant" /\ messages[10].role = "assistant"
    /\ \A p \in Callers : Occurs("# Previous Messages\n", call[p].full_prompt)
    /\ ~Contains(call["t2"].full_prompt, CallerPrompt("t1", 1))
    /\ ~Contains(call["t1"].full_prompt, CallerPrompt("t2", 1))

====
